---- MODULE Spec2Model ----
(***************************************************************************)
(* Model of src/dqueryinterface.h: DObjectRegistry (deferred add/remove    *)
(* queues, a materialized object vector, a generation counter) and its     *)
(* DInterfaceCollection views (generation-validated caches), called by     *)
(* concurrent threads.  The objects and interfaces are those of            *)
(* src/examples/win32_console_example.cpp.                                 *)
(***************************************************************************)
EXTENDS Integers, Sequences, FiniteSets, TLC

(* ------------------------------ bounds --------------------------------- *)

\* Requests (add, remove, vetoed remove) issued in one behaviour.
MaxRequests == 3

\* Width, in bits, of the model's unsigned int (the generation counters).
UIntBits == 4

(* --------------------------- the example's world ----------------------- *)

Threads == {"t1", "t2"}

\* The thread of the single-threaded specification.
MainThread == "t1"

NoThread == "none"

\* obj1 is a DExampleClass, obj3 a DOtherExampleClass.
Objects == {"obj1", "obj3"}

Interfaces == {"DFooInterface", "DBarInterface", "DBazInterface"}

\* The interface collections created by the example.
Views == {"DFooInterface", "DBarInterface"}

\* The collection the threads of the concurrent specification enumerate.
SharedViews == {"DFooInterface"}

NoView == "none"

\* The objects the example creates: obj1 and obj2 are DExampleClass, obj3 and
\* obj4 DOtherExampleClass.
ExampleObjects == {"obj1", "obj2", "obj3", "obj4"}

ClassOf(o) ==
    IF o \in {"obj1", "obj2"} THEN "DExampleClass" ELSE "DOtherExampleClass"

\* The interfaces each class derives from.
Implements(class) ==
    IF class = "DExampleClass" THEN {"DBarInterface", "DBazInterface"}
    ELSE {"DFooInterface", "DBarInterface", "DBazInterface"}

\* The type_info values a query is made with: the interfaces, and a type no
\* class of the example derives from as an interface.
TypeIds == Interfaces \cup {"DQueryInterface"}

\* QueryInterfaceByTypeId: the interface pointer, or nullptr.
QueryInterfaceByTypeId(o, typeId) ==
    IF ClassOf(o) = "DExampleClass"
    THEN IF typeId = "DBarInterface" THEN <<o, "DBarInterface">>
         ELSE IF typeId = "DBazInterface" THEN <<o, "DBazInterface">>
         ELSE "nullptr"
    ELSE IF typeId = "DFooInterface" THEN <<o, "DFooInterface">>
         ELSE IF typeId = "DBarInterface" THEN <<o, "DBarInterface">>
         ELSE IF typeId = "DBazInterface" THEN <<o, "DBazInterface">>
         ELSE "nullptr"

\* QueryInterface<T>(): reinterpret_cast<const T*> of the pointer, which keeps
\* its value.
QueryInterface_T(o, typeId) == QueryInterfaceByTypeId(o, typeId)

HasInterface(o, typeId) == QueryInterfaceByTypeId(o, typeId) # "nullptr"

\* QueryInterface(typeid): the pointer as it is.
QueryInterface_TypeId(o, typeId) == QueryInterfaceByTypeId(o, typeId)

\* HasInterface(typeid).
HasInterface_TypeId(o, typeId) == QueryInterfaceByTypeId(o, typeId) # "nullptr"

\* Mutant: the boolean form answers whether the pointer is null.
QueryInterface_Out_Negated(o, typeId) ==
    LET p == QueryInterfaceByTypeId(o, typeId)
    IN  [out_interface |-> p, return |-> ~(p # "nullptr")]

\* QueryInterface(typeid, out): return (*out_interface = ...), the assigned
\* pointer converted to bool.
QueryInterface_Out(o, typeId) ==
    LET p == QueryInterfaceByTypeId(o, typeId)
    IN  [out_interface |-> p, return |-> p # "nullptr"]

\* No query made yet.
NoQuery == [object |-> "none", typeId |-> "none"]

EPredicateResult == {"Ok", "CancellationRequested"}

\* in_optProcessRemovalPredicateFn: absent, or its result.
VetoChoices == {"NoPredicate"} \cup EPredicateResult

(* ------------------------------ unsigned int --------------------------- *)

UINT_MAX == 2 ^ UIntBits - 1

\* ++ on an unsigned int.
UIntInc(n) == (n + 1) % (UINT_MAX + 1)

(* ------------------------------- state --------------------------------- *)

VARIABLES
    m_objects,              \* registry: the materialized vector
    m_objectsToAdd,         \* registry: pending additions
    m_objectsToRemove,      \* registry: pending removals
    m_generationId,         \* registry: generation counter
    m_objectsLock,          \* owner of the main-set mutex
    m_objectsToAddLock,     \* owner of the add-queue mutex
    m_objectsToRemoveLock,  \* owner of the remove-queue mutex
    c_objects,              \* per view: the cached vector
    c_generationId,         \* per view: the stored generation
    c_objectsLock,          \* per view: owner of the view's mutex
    pc,                     \* per thread: position in its current call
    in_object,              \* per thread: argument of the request in progress
    veto,                   \* per thread: what the removal predicate answered
    changed,                \* per thread: ForEach's local 'changed'
    inView,                 \* per thread: the view whose ForEach it runs
    nested,                 \* per thread: the request its predicate is making
    query,                  \* per thread: its last interface query and the answers
    nreq,                   \* history: requests made so far
    order,                  \* history, per object: the requests queued for it
    vetoed,                 \* history: the vetoed removals, <<object, generation then>>
    rebuiltViews,           \* history: the views that have rebuilt their cache
    obs                     \* history, per thread: what its current call saw

registryVars == <<m_objects, m_objectsToAdd, m_objectsToRemove, m_generationId,
                  m_objectsLock, m_objectsToAddLock, m_objectsToRemoveLock>>
viewVars == <<c_objects, c_generationId, c_objectsLock>>
threadVars == <<pc, in_object, veto, changed, inView, nested, query>>
histVars == <<nreq, order, vetoed>>
vars == <<registryVars, viewVars, threadVars, histVars, rebuiltViews, obs>>

(* ------------------------------ helpers -------------------------------- *)

Range(s) == {s[i] : i \in DOMAIN s}

Count(o, s) == Cardinality({i \in DOMAIN s : s[i] = o})

NoDuplicates(s) == \A i, j \in DOMAIN s : s[i] = s[j] => i = j

\* std::find: the first index holding o, or 0 for end().
Find(s, o) ==
    IF \E i \in DOMAIN s : s[i] = o
    THEN CHOOSE i \in DOMAIN s : s[i] = o /\ \A j \in 1..(i - 1) : s[j] # o
    ELSE 0

\* Mutant: the entry is appended without the std::find test.
AddOne_NoFind(st, o) == [objs |-> Append(st.objs, o), changed |-> TRUE]

\* The body of the loop over m_objectsToAdd, for one entry.
AddOne(st, o) ==
    IF Find(st.objs, o) = 0
    THEN [objs |-> Append(st.objs, o), changed |-> TRUE]
    ELSE st

\* Mutant: the last element overwrites the found one and is not popped.
RemoveOne_NoPop(st, o) ==
    LET found == Find(st.objs, o)
    IN  IF found # 0
        THEN [objs |-> [st.objs EXCEPT ![found] = st.objs[Len(st.objs)]],
              changed |-> TRUE]
        ELSE st

\* Mutant: an object found in the last position is left in place.
RemoveOne_SkipLast(st, o) ==
    LET found == Find(st.objs, o)
        n == Len(st.objs)
    IN  IF found # 0 /\ found # n
        THEN [objs |-> SubSeq([st.objs EXCEPT ![found] = st.objs[n]], 1, n - 1),
              changed |-> TRUE]
        ELSE st

\* The body of the loop over m_objectsToRemove, for one entry.
RemoveOne(st, o) ==
    LET found == Find(st.objs, o)
        n == Len(st.objs)
    IN  IF found # 0
        THEN [objs |-> SubSeq([st.objs EXCEPT ![found] = st.objs[n]], 1, n - 1),
              changed |-> TRUE]
        ELSE st

RECURSIVE ProcessAdditions(_, _)
ProcessAdditions(st, q) ==
    IF q = <<>> THEN st ELSE ProcessAdditions(AddOne(st, Head(q)), Tail(q))

RECURSIVE ProcessRemovals(_, _)
ProcessRemovals(st, q) ==
    IF q = <<>> THEN st ELSE ProcessRemovals(RemoveOne(st, Head(q)), Tail(q))

\* Mutant: the drain is entered only when both queues hold entries.
HasPending_Both(toAdd, toRemove) == Len(toAdd) # 0 /\ Len(toRemove) # 0

\* The test that guards the drain.
HasPending(toAdd, toRemove) == Len(toAdd) # 0 \/ Len(toRemove) # 0

\* No request is being made by a predicate of the thread.
NoRequest == [pos |-> "none", kind |-> "none", obj |-> "none"]

\* Request calls that have not yet queued their entry.
InFlight ==
    Cardinality({t \in Threads :
                    pc[t] \in {"add_push", "remove_lock", "remove_push"}})
    + Cardinality({t \in Threads : nested[t] # NoRequest})

\* Mutant: the generation is incremented by every drain.
NextGeneration_Always(gen, ch) == UIntInc(gen)

\* if (changed) ++m_generationId.
NextGeneration(gen, ch) == IF ch THEN UIntInc(gen) ELSE gen

\* Mutant: a view's ForEach rebuilds whatever the generations are.
IsStale_Always(viewGen, registryGen) == TRUE

\* Mutant: a view is stale only until its first rebuild.
IsStale_OnlyInitially(viewGen, registryGen) == viewGen = UINT_MAX

\* The view's staleness test.
IsStale(viewGen, registryGen) == viewGen # registryGen

\* Mutant: the removal predicate's answer is ignored.
RemovalCancelled_Never(answer) == FALSE

\* The removal predicate's test.
RemovalCancelled(answer) == answer = "CancellationRequested"

\* Mutant: the view's predicate collects every object it is handed.
Collect_NoFilter(cache, objs, typeId) == cache \o objs

\* The view's predicate applied along the registry's vector.
RECURSIVE Collect(_, _, _)
Collect(cache, objs, typeId) ==
    IF objs = <<>> THEN cache
    ELSE Collect(IF HasInterface(Head(objs), typeId)
                 THEN Append(cache, Head(objs)) ELSE cache,
                 Tail(objs), typeId)

\* Mutant: the loop goes on after the predicate answered
\* CancellationRequested.
Visited_NoBreak(objs, k) == objs

\* The iteration loop, for (auto& it : objs) if (in_predicateFn(it) ==
\* CancellationRequested) break: the elements the predicate is invoked on when
\* it answers CancellationRequested at its k-th invocation (k = 0: never).
RECURSIVE Visited(_, _)
Visited(objs, k) ==
    IF objs = <<>> THEN <<>>
    ELSE IF k = 1 THEN <<Head(objs)>>
    ELSE <<Head(objs)>> \o Visited(Tail(objs), k - 1)

\* The two overloads of a view's ForEach: the caller's predicate takes the
\* object, or the interface.
Forms == {"object", "capability"}

\* The capability overload's lambda: what in_object->QueryInterface<T>()
\* resolves for each object the loop visits, handed to the caller's predicate.
Resolved(objs, typeId) ==
    [i \in DOMAIN objs |-> QueryInterfaceByTypeId(objs[i], typeId)]

\* The requests queued for an object so far: none, an add by thread t, an add
\* and then a remove by the same thread t, a remove, a remove and then an add,
\* or anything else.
Ordered(was, t, op) ==
    IF was = <<"none">> /\ op = "add" THEN <<"add", t>>
    ELSE IF was = <<"add", t>> /\ op = "remove" THEN <<"add_remove", t>>
    ELSE IF was = <<"none">> /\ op = "remove" THEN <<"remove">>
    ELSE IF was = <<"remove">> /\ op = "add" THEN <<"remove_add">>
    ELSE <<"other">>

\* What a registry or view call has seen so far: whether an add (a remove)
\* request that was queued when the registry's ForEach began is still queued
\* (oldAdds, oldRemoves), the generation when it took the main-set lock (gen0),
\* the queues as it drained them (addSeen, remSeen) and how many elements it
\* appended and removed, whether a view's call rebuilt its cache, the
\* elements the loop visited with the position at which the caller's predicate
\* cancelled, and, for the capability overload of a view's ForEach (form), the
\* interfaces handed to the caller's predicate (resolved).
NoObs == [gen0 |-> 0, oldAdds |-> FALSE, oldRemoves |-> FALSE,
          addSeen |-> <<>>, remSeen |-> <<>>,
          nAppended |-> 0, nRemoved |-> 0, rebuilt |-> FALSE,
          visited |-> <<>>, cancelAt |-> 0,
          form |-> "none", resolved |-> <<>>]

(* ------------------------------- Init ---------------------------------- *)

Init ==
    /\ m_objects = <<>>
    /\ m_objectsToAdd = <<>>
    /\ m_objectsToRemove = <<>>
    /\ m_generationId = 0
    /\ m_objectsLock = NoThread
    /\ m_objectsToAddLock = NoThread
    /\ m_objectsToRemoveLock = NoThread
    /\ c_objects = [v \in Views |-> <<>>]
    /\ c_generationId = [v \in Views |-> UINT_MAX]
    /\ c_objectsLock = [v \in Views |-> NoThread]
    /\ pc = [t \in Threads |-> "idle"]
    /\ in_object = [t \in Threads |-> "none"]
    /\ veto = [t \in Threads |-> "none"]
    /\ changed = [t \in Threads |-> FALSE]
    /\ inView = [t \in Threads |-> NoView]
    /\ nested = [t \in Threads |-> NoRequest]
    /\ query = [t \in Threads |-> NoQuery]
    /\ nreq = 0
    /\ order = [o \in Objects |-> <<"none">>]
    /\ vetoed = {}
    /\ rebuiltViews = {}
    /\ obs = [t \in Threads |-> NoObs]

\* The registry after UINT_MAX - 1 drains that changed the materialized set
\* and left it empty (an object added by one drain and removed by the next,
\* again and again), before any view was enumerated.
InitWrap ==
    /\ m_objects = <<>>
    /\ m_objectsToAdd = <<>>
    /\ m_objectsToRemove = <<>>
    /\ m_generationId = UINT_MAX - 1
    /\ m_objectsLock = NoThread
    /\ m_objectsToAddLock = NoThread
    /\ m_objectsToRemoveLock = NoThread
    /\ c_objects = [v \in Views |-> <<>>]
    /\ c_generationId = [v \in Views |-> UINT_MAX]
    /\ c_objectsLock = [v \in Views |-> NoThread]
    /\ pc = [t \in Threads |-> "idle"]
    /\ in_object = [t \in Threads |-> "none"]
    /\ veto = [t \in Threads |-> "none"]
    /\ changed = [t \in Threads |-> FALSE]
    /\ inView = [t \in Threads |-> NoView]
    /\ nested = [t \in Threads |-> NoRequest]
    /\ query = [t \in Threads |-> NoQuery]
    /\ nreq = 0
    /\ order = [o \in Objects |-> <<"none">>]
    /\ vetoed = {}
    /\ rebuiltViews = {}
    /\ obs = [t \in Threads |-> NoObs]

(* ------------------------ DObjectRegistry requests --------------------- *)

\* RequestAddObject: the call, up to the scoped_lock.
RequestAddObject(t, o) ==
    /\ pc[t] = "idle"
    /\ nreq + InFlight < MaxRequests
    /\ m_objectsToAddLock = NoThread
    /\ m_objectsToAddLock' = t
    /\ in_object' = [in_object EXCEPT ![t] = o]
    /\ pc' = [pc EXCEPT ![t] = "add_push"]
    /\ UNCHANGED <<m_objects, m_objectsToAdd, m_objectsToRemove, m_generationId,
                   m_objectsLock, m_objectsToRemoveLock, viewVars, veto,
                   changed, inView, histVars, obs>>
    /\ UNCHANGED <<nested, rebuiltViews, query>>

\* Mutant: the request also merges the object into the materialized set.
RequestAddObject_Push_Eager(t) ==
    /\ pc[t] = "add_push"
    /\ m_objectsToAdd' = Append(m_objectsToAdd, in_object[t])
    /\ m_objects' = AddOne([objs |-> m_objects, changed |-> FALSE],
                           in_object[t]).objs
    /\ nreq' = nreq + 1
    /\ order' = [order EXCEPT ![in_object[t]] = Ordered(@, t, "add")]
    /\ vetoed' = vetoed
    /\ m_objectsToAddLock' = NoThread
    /\ in_object' = [in_object EXCEPT ![t] = "none"]
    /\ pc' = [pc EXCEPT ![t] = "idle"]
    /\ UNCHANGED <<m_objectsToRemove, m_generationId, m_objectsLock,
                   m_objectsToRemoveLock, viewVars, veto, changed, inView, obs>>
    /\ UNCHANGED <<nested, rebuiltViews, query>>

\* RequestAddObject: push_back, and the lock's release at the return.
RequestAddObject_Push(t) ==
    /\ pc[t] = "add_push"
    /\ m_objectsToAdd' = Append(m_objectsToAdd, in_object[t])
    /\ nreq' = nreq + 1
    /\ order' = [order EXCEPT ![in_object[t]] = Ordered(@, t, "add")]
    /\ vetoed' = vetoed
    /\ m_objectsToAddLock' = NoThread
    /\ in_object' = [in_object EXCEPT ![t] = "none"]
    /\ pc' = [pc EXCEPT ![t] = "idle"]
    /\ UNCHANGED <<m_objects, m_objectsToRemove, m_generationId, m_objectsLock,
                   m_objectsToRemoveLock, viewVars, veto, changed, inView, obs>>
    /\ UNCHANGED <<nested, rebuiltViews, query>>

\* RequestRemoveObject: the call; the removal predicate, when given, answers.
RequestRemoveObject(t, o, answer) ==
    /\ pc[t] = "idle"
    /\ nreq + InFlight < MaxRequests
    /\ in_object' = [in_object EXCEPT ![t] = o]
    /\ veto' = [veto EXCEPT ![t] = answer]
    /\ pc' = [pc EXCEPT ![t] = "remove_lock"]
    /\ UNCHANGED <<registryVars, viewVars, changed, inView, histVars, obs>>
    /\ UNCHANGED <<nested, rebuiltViews, query>>

\* RequestRemoveObject: return when the predicate cancelled, else the
\* scoped_lock.
RequestRemoveObject_Lock(t) ==
    /\ pc[t] = "remove_lock"
    /\ nested[t] = NoRequest
    /\ IF RemovalCancelled(veto[t])
       THEN /\ pc' = [pc EXCEPT ![t] = "idle"]
            /\ in_object' = [in_object EXCEPT ![t] = "none"]
            /\ nreq' = nreq + 1
            /\ vetoed' = vetoed \cup {<<in_object[t], m_generationId>>}
            /\ UNCHANGED <<m_objectsToRemoveLock, order>>
       ELSE /\ m_objectsToRemoveLock = NoThread
            /\ m_objectsToRemoveLock' = t
            /\ pc' = [pc EXCEPT ![t] = "remove_push"]
            /\ UNCHANGED <<in_object, histVars>>
    /\ veto' = [veto EXCEPT ![t] = "none"]
    /\ UNCHANGED <<m_objects, m_objectsToAdd, m_objectsToRemove, m_generationId,
                   m_objectsLock, m_objectsToAddLock, viewVars, changed,
                   inView, obs>>
    /\ UNCHANGED <<nested, rebuiltViews, query>>

\* RequestRemoveObject: push_back, and the lock's release at the return.
RequestRemoveObject_Push(t) ==
    /\ pc[t] = "remove_push"
    /\ m_objectsToRemove' = Append(m_objectsToRemove, in_object[t])
    /\ nreq' = nreq + 1
    /\ order' = [order EXCEPT ![in_object[t]] = Ordered(@, t, "remove")]
    /\ vetoed' = vetoed
    /\ m_objectsToRemoveLock' = NoThread
    /\ in_object' = [in_object EXCEPT ![t] = "none"]
    /\ pc' = [pc EXCEPT ![t] = "idle"]
    /\ UNCHANGED <<m_objects, m_objectsToAdd, m_generationId, m_objectsLock,
                   m_objectsToAddLock, viewVars, veto, changed, inView, obs>>
    /\ UNCHANGED <<nested, rebuiltViews, query>>

(* ------------------------ DObjectRegistry::ForEach --------------------- *)

\* The call begins (from a caller, or from a view that rebuilds).
ForEach_Begin(t) ==
    /\ obs' = [obs EXCEPT ![t] = [@ EXCEPT
                  !.oldAdds = m_objectsToAdd # <<>>,
                  !.oldRemoves = m_objectsToRemove # <<>>]]
    /\ pc' = [pc EXCEPT ![t] = "fe_lock"]

ForEach(t) ==
    /\ pc[t] = "idle"
    /\ ForEach_Begin(t)
    /\ UNCHANGED <<registryVars, viewVars, in_object, veto, changed, inView,
                   histVars>>
    /\ UNCHANGED <<nested, rebuiltViews, query>>

\* scoped_lock(m_objectsLock).
ForEach_Lock(t) ==
    /\ pc[t] = "fe_lock"
    /\ m_objectsLock = NoThread
    /\ m_objectsLock' = t
    /\ obs' = [obs EXCEPT ![t] = [@ EXCEPT !.gen0 = m_generationId]]
    /\ pc' = [pc EXCEPT ![t] = "fe_check"]
    /\ UNCHANGED <<m_objects, m_objectsToAdd, m_objectsToRemove, m_generationId,
                   m_objectsToAddLock, m_objectsToRemoveLock, viewVars,
                   in_object, veto, changed, inView, histVars>>
    /\ UNCHANGED <<nested, rebuiltViews, query>>

\* if (m_objectsToAdd.size() || m_objectsToRemove.size()), read with neither
\* queue lock held; bool changed = false.
ForEach_Check(t) ==
    /\ pc[t] = "fe_check"
    /\ pc' = [pc EXCEPT ![t] =
                 IF HasPending(m_objectsToAdd, m_objectsToRemove)
                 THEN "fe_add_lock" ELSE "fe_iterate"]
    /\ changed' = [changed EXCEPT ![t] = FALSE]
    /\ UNCHANGED <<registryVars, viewVars, in_object, veto, inView, histVars, obs>>
    /\ UNCHANGED <<nested, rebuiltViews, query>>

\* scoped_lock(m_objectsToAddLock).
ForEach_AddLock(t) ==
    /\ pc[t] = "fe_add_lock"
    /\ m_objectsToAddLock = NoThread
    /\ m_objectsToAddLock' = t
    /\ pc' = [pc EXCEPT ![t] = "fe_add"]
    /\ UNCHANGED <<m_objects, m_objectsToAdd, m_objectsToRemove, m_generationId,
                   m_objectsLock, m_objectsToRemoveLock, viewVars, in_object,
                   veto, changed, inView, histVars, obs>>
    /\ UNCHANGED <<nested, rebuiltViews, query>>

\* Mutant: the add-queue lock taken for the drain is not scoped to the drain
\* and is never released.
ForEach_ProcessAdditions_KeepsLock(t) ==
    /\ pc[t] = "fe_add"
    /\ LET r == ProcessAdditions([objs |-> m_objects, changed |-> changed[t]],
                                 m_objectsToAdd)
       IN  /\ m_objects' = r.objs
           /\ changed' = [changed EXCEPT ![t] = r.changed]
           /\ obs' = [u \in Threads |->
                         IF u = t
                         THEN [obs[u] EXCEPT
                                  !.addSeen = m_objectsToAdd,
                                  !.nAppended = Len(r.objs) - Len(m_objects),
                                  !.oldAdds = FALSE]
                         ELSE [obs[u] EXCEPT !.oldAdds = FALSE]]
    /\ m_objectsToAdd' = <<>>
    /\ m_objectsToAddLock' = m_objectsToAddLock
    /\ pc' = [pc EXCEPT ![t] = "fe_remove_lock"]
    /\ UNCHANGED <<m_objectsToRemove, m_generationId, m_objectsLock,
                   m_objectsToRemoveLock, viewVars, in_object, veto, inView,
                   histVars>>
    /\ UNCHANGED <<nested, rebuiltViews, query>>

\* Process pending additions; clear; release the add-queue lock.
ForEach_ProcessAdditions(t) ==
    /\ pc[t] = "fe_add"
    /\ LET r == ProcessAdditions([objs |-> m_objects, changed |-> changed[t]],
                                 m_objectsToAdd)
       IN  /\ m_objects' = r.objs
           /\ changed' = [changed EXCEPT ![t] = r.changed]
           /\ obs' = [u \in Threads |->
                         IF u = t
                         THEN [obs[u] EXCEPT
                                  !.addSeen = m_objectsToAdd,
                                  !.nAppended = Len(r.objs) - Len(m_objects),
                                  !.oldAdds = FALSE]
                         ELSE [obs[u] EXCEPT !.oldAdds = FALSE]]
    /\ m_objectsToAdd' = <<>>
    /\ m_objectsToAddLock' = NoThread
    /\ pc' = [pc EXCEPT ![t] = "fe_remove_lock"]
    /\ UNCHANGED <<m_objectsToRemove, m_generationId, m_objectsLock,
                   m_objectsToRemoveLock, viewVars, in_object, veto, inView,
                   histVars>>
    /\ UNCHANGED <<nested, rebuiltViews, query>>

\* scoped_lock(m_objectsToRemoveLock).
ForEach_RemoveLock(t) ==
    /\ pc[t] = "fe_remove_lock"
    /\ m_objectsToRemoveLock = NoThread
    /\ m_objectsToRemoveLock' = t
    /\ pc' = [pc EXCEPT ![t] = "fe_remove"]
    /\ UNCHANGED <<m_objects, m_objectsToAdd, m_objectsToRemove, m_generationId,
                   m_objectsLock, m_objectsToAddLock, viewVars, in_object,
                   veto, changed, inView, histVars, obs>>
    /\ UNCHANGED <<nested, rebuiltViews, query>>

\* Process pending removals; clear; release the remove-queue lock.
ForEach_ProcessRemovals(t) ==
    /\ pc[t] = "fe_remove"
    /\ LET r == ProcessRemovals([objs |-> m_objects, changed |-> changed[t]],
                                m_objectsToRemove)
       IN  /\ m_objects' = r.objs
           /\ changed' = [changed EXCEPT ![t] = r.changed]
           /\ obs' = [u \in Threads |->
                         IF u = t
                         THEN [obs[u] EXCEPT
                                  !.remSeen = m_objectsToRemove,
                                  !.nRemoved = Len(m_objects) - Len(r.objs),
                                  !.oldRemoves = FALSE]
                         ELSE [obs[u] EXCEPT !.oldRemoves = FALSE]]
    /\ m_objectsToRemove' = <<>>
    /\ m_objectsToRemoveLock' = NoThread
    /\ pc' = [pc EXCEPT ![t] = "fe_generation"]
    /\ UNCHANGED <<m_objectsToAdd, m_generationId, m_objectsLock,
                   m_objectsToAddLock, viewVars, in_object, veto, inView, histVars>>
    /\ UNCHANGED <<nested, rebuiltViews, query>>

\* if (changed) ++m_generationId.
ForEach_Generation(t) ==
    /\ pc[t] = "fe_generation"
    /\ m_generationId' = NextGeneration(m_generationId, changed[t])
    /\ pc' = [pc EXCEPT ![t] = "fe_iterate"]
    /\ UNCHANGED <<m_objects, m_objectsToAdd, m_objectsToRemove, m_objectsLock,
                   m_objectsToAddLock, m_objectsToRemoveLock, viewVars,
                   in_object, veto, changed, inView, histVars, obs>>
    /\ UNCHANGED <<nested, rebuiltViews, query>>

\* The loop over m_objects: the caller's predicate cancels at the k-th element
\* (k = 0: never); a rebuilding view's predicate collects and never cancels.
ForEach_Iterate(t, k) ==
    /\ pc[t] = "fe_iterate"
    /\ nested[t] = NoRequest
    /\ k \in 0..Len(m_objects)
    /\ IF inView[t] # NoView
       THEN /\ k = 0
            /\ c_objects' = [c_objects EXCEPT ![inView[t]] =
                                Collect(@, m_objects, inView[t])]
       ELSE c_objects' = c_objects
    /\ obs' = [obs EXCEPT ![t] = [@ EXCEPT !.visited = Visited(m_objects, k),
                                           !.cancelAt = k]]
    /\ pc' = [pc EXCEPT ![t] = "fe_done"]
    /\ UNCHANGED <<registryVars, c_generationId, c_objectsLock, in_object,
                   veto, changed, inView, histVars>>
    /\ UNCHANGED <<nested, rebuiltViews, query>>

\* The return: m_objectsLock is released.
ForEach_Return(t) ==
    /\ pc[t] = "fe_done"
    /\ m_objectsLock' = NoThread
    /\ IF inView[t] # NoView
       THEN /\ pc' = [pc EXCEPT ![t] = "c_generation"]
            /\ obs' = [obs EXCEPT ![t] = [NoObs EXCEPT !.rebuilt = TRUE]]
       ELSE /\ pc' = [pc EXCEPT ![t] = "idle"]
            /\ obs' = [obs EXCEPT ![t] = NoObs]
    /\ changed' = [changed EXCEPT ![t] = FALSE]
    /\ UNCHANGED <<m_objects, m_objectsToAdd, m_objectsToRemove, m_generationId,
                   m_objectsToAddLock, m_objectsToRemoveLock, viewVars,
                   in_object, veto, inView, histVars>>
    /\ UNCHANGED <<nested, rebuiltViews, query>>

(* --------------------- DInterfaceCollection::ForEach ------------------- *)

\* The call, up to scoped_lock(m_objectsLock) of the view.
Collection_ForEach(t, v) ==
    /\ pc[t] = "idle"
    /\ c_objectsLock[v] = NoThread
    /\ c_objectsLock' = [c_objectsLock EXCEPT ![v] = t]
    /\ inView' = [inView EXCEPT ![t] = v]
    /\ pc' = [pc EXCEPT ![t] = "c_check"]
    /\ UNCHANGED <<registryVars, c_objects, c_generationId, in_object, veto,
                   changed, histVars, obs>>
    /\ UNCHANGED <<nested, rebuiltViews, query>>

\* if (m_generationId != m_registry.GetGenerationId()): clear the cache and
\* call the registry's ForEach.
Collection_Check(t) ==
    /\ pc[t] = "c_check"
    /\ IF IsStale(c_generationId[inView[t]], m_generationId)
       THEN /\ c_objects' = [c_objects EXCEPT ![inView[t]] = <<>>]
            /\ ForEach_Begin(t)
       ELSE /\ pc' = [pc EXCEPT ![t] = "c_iterate"]
            /\ UNCHANGED <<c_objects, obs>>
    /\ UNCHANGED <<registryVars, c_generationId, c_objectsLock, in_object,
                   veto, changed, inView, histVars>>
    /\ UNCHANGED <<nested, rebuiltViews, query>>

\* m_generationId = m_registry.GetGenerationId().
Collection_StoreGeneration(t) ==
    /\ pc[t] = "c_generation"
    /\ c_generationId' = [c_generationId EXCEPT ![inView[t]] = m_generationId]
    /\ pc' = [pc EXCEPT ![t] = "c_iterate"]
    /\ UNCHANGED <<registryVars, c_objects, c_objectsLock, in_object, veto,
                   changed, inView, histVars, obs>>
    /\ rebuiltViews' = rebuiltViews \cup {inView[t]}
    /\ UNCHANGED <<nested, query>>

\* The loop over the cache; the caller's predicate, which takes the object or
\* (through the capability overload's lambda) the interface, cancels at the
\* k-th.
Collection_Iterate(t, form, k) ==
    /\ pc[t] = "c_iterate"
    /\ nested[t] = NoRequest
    /\ k \in 0..Len(c_objects[inView[t]])
    /\ LET seen == Visited(c_objects[inView[t]], k)
       IN  obs' = [obs EXCEPT ![t] = [@ EXCEPT
                      !.visited = seen,
                      !.cancelAt = k,
                      !.form = form,
                      !.resolved = IF form = "capability"
                                   THEN Resolved(seen, inView[t]) ELSE <<>>]]
    /\ pc' = [pc EXCEPT ![t] = "c_done"]
    /\ UNCHANGED <<registryVars, viewVars, in_object, veto, changed, inView,
                   histVars>>
    /\ UNCHANGED <<nested, rebuiltViews, query>>

\* The return: the view's lock is released.
Collection_Return(t) ==
    /\ pc[t] = "c_done"
    /\ c_objectsLock' = [c_objectsLock EXCEPT ![inView[t]] = NoThread]
    /\ inView' = [inView EXCEPT ![t] = NoView]
    /\ obs' = [obs EXCEPT ![t] = NoObs]
    /\ pc' = [pc EXCEPT ![t] = "idle"]
    /\ UNCHANGED <<registryVars, c_objects, c_generationId, in_object, veto,
                   changed, histVars>>
    /\ UNCHANGED <<nested, rebuiltViews, query>>

(* ---------------------- DQueryInterface's queries --------------------- *)

\* A thread queries an object for an interface in each of the calling
\* conventions.
Query(t, o, typeId) ==
    /\ pc[t] = "idle"
    /\ query' = [query EXCEPT ![t] =
                    [object |-> o, typeId |-> typeId,
                     typed |-> QueryInterface_T(o, typeId),
                     has |-> HasInterface(o, typeId),
                     byTypeId |-> QueryInterface_TypeId(o, typeId),
                     hasByTypeId |-> HasInterface_TypeId(o, typeId),
                     comLike |-> QueryInterface_Out(o, typeId)]]
    /\ UNCHANGED <<registryVars, viewVars, pc, in_object, veto, changed, inView,
                   nested, histVars, rebuiltViews, obs>>

(* ------------------- requests made from inside a predicate ------------ *)

\* The thread is inside a predicate it was handed by a caller: the predicate
\* of a registry ForEach or of a view's ForEach, invoked on an element of the
\* vector the loop walks, or the removal predicate of RequestRemoveObject.
InPredicate(t) ==
    /\ nested[t] = NoRequest
    /\ \/ pc[t] = "fe_iterate" /\ inView[t] = NoView /\ m_objects # <<>>
       \/ pc[t] = "c_iterate" /\ c_objects[inView[t]] # <<>>
       \/ pc[t] = "remove_lock" /\ veto[t] \in EPredicateResult

\* The predicate calls RequestAddObject (kind "add") or RequestRemoveObject
\* without a removal predicate (kind "remove") on the registry.
Predicate_Request(t, kind, o) ==
    /\ InPredicate(t)
    /\ nreq + InFlight < MaxRequests
    /\ nested' = [nested EXCEPT ![t] = [pos |-> "lock", kind |-> kind, obj |-> o]]
    /\ UNCHANGED <<registryVars, viewVars, pc, in_object, veto, changed, inView,
                   histVars, obs>>
    /\ UNCHANGED <<rebuiltViews, query>>

\* The nested call's scoped_lock of its queue.
Predicate_Request_Lock(t) ==
    /\ nested[t].pos = "lock"
    /\ IF nested[t].kind = "add"
       THEN /\ m_objectsToAddLock = NoThread
            /\ m_objectsToAddLock' = t
            /\ UNCHANGED m_objectsToRemoveLock
       ELSE /\ m_objectsToRemoveLock = NoThread
            /\ m_objectsToRemoveLock' = t
            /\ UNCHANGED m_objectsToAddLock
    /\ nested' = [nested EXCEPT ![t] = [@ EXCEPT !.pos = "push"]]
    /\ UNCHANGED <<m_objects, m_objectsToAdd, m_objectsToRemove, m_generationId,
                   m_objectsLock, viewVars, pc, in_object, veto, changed,
                   inView, histVars, obs>>
    /\ UNCHANGED <<rebuiltViews, query>>

\* The nested call's push_back, and the lock's release at its return.
Predicate_Request_Push(t) ==
    /\ nested[t].pos = "push"
    /\ IF nested[t].kind = "add"
       THEN /\ m_objectsToAdd' = Append(m_objectsToAdd, nested[t].obj)
            /\ m_objectsToAddLock' = NoThread
            /\ UNCHANGED <<m_objectsToRemove, m_objectsToRemoveLock>>
       ELSE /\ m_objectsToRemove' = Append(m_objectsToRemove, nested[t].obj)
            /\ m_objectsToRemoveLock' = NoThread
            /\ UNCHANGED <<m_objectsToAdd, m_objectsToAddLock>>
    /\ nreq' = nreq + 1
    /\ order' = [order EXCEPT ![nested[t].obj] = Ordered(@, t, nested[t].kind)]
    /\ vetoed' = vetoed
    /\ nested' = [nested EXCEPT ![t] = NoRequest]
    /\ UNCHANGED <<m_objects, m_generationId, m_objectsLock, viewVars, pc,
                   in_object, veto, changed, inView, obs>>
    /\ UNCHANGED <<rebuiltViews, query>>

(* --------------------------- specifications ---------------------------- *)

Step(t, views) ==
    \/ \E o \in Objects : RequestAddObject(t, o)
    \/ RequestAddObject_Push(t)
    \/ \E o \in Objects, answer \in VetoChoices : RequestRemoveObject(t, o, answer)
    \/ RequestRemoveObject_Lock(t)
    \/ RequestRemoveObject_Push(t)
    \/ ForEach(t)
    \/ ForEach_Lock(t)
    \/ ForEach_Check(t)
    \/ ForEach_AddLock(t)
    \/ ForEach_ProcessAdditions(t)
    \/ ForEach_RemoveLock(t)
    \/ ForEach_ProcessRemovals(t)
    \/ ForEach_Generation(t)
    \/ \E k \in 0..Cardinality(Objects) : ForEach_Iterate(t, k)
    \/ ForEach_Return(t)
    \/ \E v \in views : Collection_ForEach(t, v)
    \/ Collection_Check(t)
    \/ Collection_StoreGeneration(t)
    \/ \E form \in Forms, k \in 0..Cardinality(Objects) :
           Collection_Iterate(t, form, k)
    \/ Collection_Return(t)

\* Threads calling the registry and its views concurrently.
Next == \E t \in Threads : Step(t, SharedViews)

Spec == Init /\ [][Next]_vars

\* The same threads, whose predicates may call RequestAddObject and
\* RequestRemoveObject on the registry.
StepNested(t) ==
    \/ Step(t, SharedViews)
    \/ \E kind \in {"add", "remove"}, o \in Objects : Predicate_Request(t, kind, o)
    \/ Predicate_Request_Lock(t)
    \/ Predicate_Request_Push(t)

NextNested == \E t \in Threads : StepNested(t)

SpecNested == Init /\ [][NextNested]_vars

\* One thread calling them in sequence.
NextSeq == Step(MainThread, Views)

SpecSeq == Init /\ [][NextSeq]_vars

\* Threads querying the example's objects.
NextQuery ==
    \E t \in Threads, o \in ExampleObjects, typeId \in TypeIds : Query(t, o, typeId)

SpecQuery == Init /\ [][NextQuery]_vars

\* One thread calling them in sequence, late in the registry's life.
SpecWrap == InitWrap /\ [][NextSeq]_vars

(* ------------------------------ the claims ----------------------------- *)

\* The objects of the materialized set that have interface typeId.
Filtered(typeId) == {o \in Range(m_objects) : HasInterface(o, typeId)}

C2_CacheValid ==
    \A v \in Views :
        (/\ c_objectsLock[v] = NoThread
         /\ m_objectsLock = NoThread
         /\ c_generationId[v] = m_generationId)
        => Range(c_objects[v]) = Filtered(v)

\* C3: Generation step rule.  While a registry ForEach holds the main-set
\* lock the generation is the one it found until its drain is over, and from
\* then on that generation plus 1 if the drain appended or removed at least
\* one object, and the same generation otherwise; the generation changes in no
\* other step, and only by growing by 1.
C3_InCall ==
    \A t \in Threads :
        /\ pc[t] \in {"fe_check", "fe_add_lock", "fe_add", "fe_remove_lock",
                      "fe_remove", "fe_generation"}
               => m_generationId = obs[t].gen0
        /\ pc[t] \in {"fe_iterate", "fe_done"}
               => m_generationId = obs[t].gen0 +
                      (IF obs[t].nAppended + obs[t].nRemoved > 0 THEN 1 ELSE 0)

C3_Step ==
    m_generationId' # m_generationId =>
        /\ m_generationId' = m_generationId + 1
        /\ \E t \in Threads : pc[t] = "fe_generation" /\ pc'[t] = "fe_iterate"

C4_Dedup ==
    \A t \in Threads :
        pc[t] \in {"fe_generation", "fe_iterate", "fe_done"} =>
            \A o \in Objects :
                (/\ Count(o, obs[t].addSeen) >= 2
                 /\ o \notin Range(obs[t].remSeen))
                => Count(o, m_objects) = 1

\* C4 witness: a drain has absorbed two add requests for obj1, which was not
\* in the set before, and obj1 is in the set once.
C4_Witness ==
    \E t \in Threads :
        /\ pc[t] = "fe_done"
        /\ Count("obj1", obs[t].addSeen) = 2
        /\ obs[t].remSeen = <<>>
        /\ obs[t].nAppended = 1
        /\ m_objects = <<"obj1">>

\* C5: No duplicates.  In every reachable state (so whenever the main-set lock
\* is free, and whenever a registry ForEach invokes its predicate) no object
\* occurs more than once in the materialized set.
C5_NoDuplicates == NoDuplicates(m_objects)

\* C5 witness: one drain has appended obj1 and obj3 and removed obj1, the
\* first of the two, by moving the last into its place, and a ForEach
\* predicate has been invoked on what is left.
C5_Witness ==
    \E t \in Threads :
        /\ pc[t] = "fe_done"
        /\ obs[t].addSeen = <<"obj1", "obj3">>
        /\ obs[t].remSeen = <<"obj1">>
        /\ obs[t].nRemoved = 1
        /\ m_objects = <<"obj3">>
        /\ obs[t].visited = m_objects

\* C6: Veto.  The return of a RequestRemoveObject whose predicate answered
\* CancellationRequested changes no queue and nothing else of the registry or
\* of a view; an object leaves the materialized set only in a step that drains
\* a remove queue holding it; and a view's ForEach that has run its loop holds
\* every object of the materialized set that has its interface.
C6_VetoReturn ==
    \A t \in Threads :
        (pc[t] = "remove_lock" /\ veto[t] = "CancellationRequested"
                               /\ pc'[t] # pc[t])
        => /\ pc'[t] = "idle"
           /\ UNCHANGED <<registryVars, viewVars, order>>

C6_OnlyQueuedLeave ==
    \A o \in Range(m_objects) :
        o \notin Range(m_objects') => o \in Range(m_objectsToRemove)

C6_InViews ==
    \A t \in Threads :
        pc[t] = "c_done" =>
            \A o \in Range(m_objects) :
                HasInterface(o, inView[t]) => o \in Range(c_objects[inView[t]])

C7_Absorbed ==
    \A t \in Threads :
        pc[t] = "fe_done" => ~obs[t].oldAdds /\ ~obs[t].oldRemoves

\* C7 witness: a registry ForEach has drained an add queue of two requests
\* and an empty remove queue and is about to return, while a request made
\* since it began is queued.
C7_Witness ==
    \E t \in Threads :
        /\ pc[t] = "fe_done"
        /\ Len(obs[t].addSeen) = 2
        /\ obs[t].remSeen = <<>>
        /\ m_objectsToAdd \o m_objectsToRemove # <<>>

\* C8: Adds before removes.  After a drain, an object that was in the add
\* queue and in the remove queue the drain processed is not in the
\* materialized set.
C8_AddsBeforeRemoves ==
    \A t \in Threads :
        pc[t] \in {"fe_generation", "fe_iterate", "fe_done"} =>
            \A o \in Range(obs[t].addSeen) \cap Range(obs[t].remSeen) :
                o \notin Range(m_objects)

\* C8 witness: one drain has appended obj1, which was not in the set, and
\* removed it; the remove was requested before the add.
C8_Witness ==
    \E t \in Threads :
        /\ pc[t] = "fe_done"
        /\ obs[t].addSeen = <<"obj1">>
        /\ obs[t].remSeen = <<"obj1">>
        /\ obs[t].nAppended = 1
        /\ obs[t].nRemoved = 1
        /\ order["obj1"] = <<"remove_add">>

\* C9: Per-thread request order.  When the only requests queued for an object
\* are an add by a thread and then a remove by the same thread, and neither is
\* in a queue any more (and no drain is under way), the object is not in the
\* materialized set.
C9_PerThreadOrder ==
    \A o \in Objects :
        (/\ \E t \in Threads : order[o] = <<"add_remove", t>>
         /\ o \notin Range(m_objectsToAdd)
         /\ o \notin Range(m_objectsToRemove)
         /\ m_objectsLock = NoThread)
        => o \notin Range(m_objects)

\* C10: Coarse staleness.  In single-threaded use, a step that changes the
\* generation leaves every view with a stored generation different from it; a
\* view's ForEach that finds its stored generation different clears the cache
\* and calls the registry's ForEach; and the cache of a view that has rebuilt
\* holds exactly the objects of the materialized set that have its interface,
\* each once, with the registry's generation stored.
C10_Invalidated ==
    m_generationId' # m_generationId =>
        \A v \in Views : c_generationId'[v] # m_generationId'

C10_Rebuilds ==
    \A t \in Threads :
        (/\ pc[t] = "c_check"
         /\ pc'[t] # "c_check"
         /\ c_generationId[inView[t]] # m_generationId)
        => /\ c_objects'[inView[t]] = <<>>
           /\ pc'[t] = "fe_lock"

C10_Refiltered ==
    \A t \in Threads :
        (pc[t] \in {"c_iterate", "c_done"} /\ obs[t].rebuilt) =>
            /\ Range(c_objects[inView[t]]) = Filtered(inView[t])
            /\ NoDuplicates(c_objects[inView[t]])
            /\ c_generationId[inView[t]] = m_generationId

C11_Registry ==
    \A t \in Threads :
        (pc[t] = "fe_done" /\ inView[t] = NoView /\ obs[t].cancelAt > 0) =>
            /\ obs[t].visited = SubSeq(m_objects, 1, obs[t].cancelAt)
            /\ NoDuplicates(obs[t].visited)
            /\ ~obs[t].oldAdds /\ ~obs[t].oldRemoves
            /\ Range(obs[t].addSeen) \ Range(obs[t].remSeen) \subseteq Range(m_objects)
            /\ Range(obs[t].remSeen) \cap Range(m_objects) = {}

C11_View ==
    \A t \in Threads :
        (pc[t] = "c_done" /\ obs[t].cancelAt > 0) =>
            LET cache == c_objects[inView[t]]
                k == obs[t].cancelAt
            IN  /\ obs[t].visited = SubSeq(cache, 1, k)
                /\ NoDuplicates(obs[t].visited)
                /\ obs[t].form = "capability" =>
                       obs[t].resolved = [i \in 1..k |-> <<cache[i], inView[t]>>]
                /\ obs[t].form = "object" => obs[t].resolved = <<>>
                /\ obs[t].rebuilt =>
                       /\ Range(cache) = Filtered(inView[t])
                       /\ c_generationId[inView[t]] = m_generationId

C11_Cancellation == C11_Registry /\ C11_View

\* C11 witness: the Bar view has rebuilt its cache of two objects, and the
\* predicate of the capability overload has cancelled at the first.
C11_Witness ==
    /\ pc[MainThread] = "c_done"
    /\ inView[MainThread] = "DBarInterface"
    /\ obs[MainThread].rebuilt
    /\ obs[MainThread].form = "capability"
    /\ obs[MainThread].cancelAt = 1
    /\ Len(c_objects["DBarInterface"]) = 2
    /\ Len(obs[MainThread].resolved) = 1

\* The mutexes (of the registry, and of each view), and the owner of each.
MainLock == <<"m_objectsLock", "registry">>
AddLock == <<"m_objectsToAddLock", "registry">>
RemoveLock == <<"m_objectsToRemoveLock", "registry">>
ViewLock(v) == <<"m_objectsLock", v>>
NoLock == <<"none", "none">>

Locks == {MainLock, AddLock, RemoveLock} \cup {ViewLock(v) : v \in Views}

Holder(l) ==
    IF l = MainLock THEN m_objectsLock
    ELSE IF l = AddLock THEN m_objectsToAddLock
    ELSE IF l = RemoveLock THEN m_objectsToRemoveLock
    ELSE c_objectsLock[l[2]]

Holds(t) == {l \in Locks : Holder(l) = t}

\* The mutex whose scoped_lock the thread has reached, or NoLock.
Wants(t) ==
    IF nested[t].pos = "lock"
    THEN IF nested[t].kind = "add" THEN AddLock ELSE RemoveLock
    ELSE IF nested[t] # NoRequest THEN NoLock
    ELSE IF pc[t] = "fe_lock" THEN MainLock
    ELSE IF pc[t] = "fe_add_lock" THEN AddLock
    ELSE IF pc[t] = "fe_remove_lock" THEN RemoveLock
    ELSE IF pc[t] = "remove_lock" /\ ~RemovalCancelled(veto[t]) THEN RemoveLock
    ELSE NoLock

\* The shared structures, each with the mutex that is to protect it.
Cache(v) == <<"m_objects", v>>
Structures == {<<"m_objects", "registry">>, <<"m_objectsToAdd", "registry">>,
               <<"m_objectsToRemove", "registry">>} \cup {Cache(v) : v \in Views}

LockOf(s) ==
    IF s = <<"m_objects", "registry">> THEN MainLock
    ELSE IF s = <<"m_objectsToAdd", "registry">> THEN AddLock
    ELSE IF s = <<"m_objectsToRemove", "registry">> THEN RemoveLock
    ELSE ViewLock(s[2])

\* The structures the thread's next step writes.
Writes(t) ==
    IF nested[t].pos = "push"
    THEN IF nested[t].kind = "add" THEN {<<"m_objectsToAdd", "registry">>}
         ELSE {<<"m_objectsToRemove", "registry">>}
    ELSE IF nested[t] # NoRequest THEN {}
    ELSE IF pc[t] = "add_push" THEN {<<"m_objectsToAdd", "registry">>}
    ELSE IF pc[t] = "remove_push" THEN {<<"m_objectsToRemove", "registry">>}
    ELSE IF pc[t] = "fe_add"
         THEN {<<"m_objects", "registry">>, <<"m_objectsToAdd", "registry">>}
    ELSE IF pc[t] = "fe_remove"
         THEN {<<"m_objects", "registry">>, <<"m_objectsToRemove", "registry">>}
    ELSE IF pc[t] = "fe_iterate" /\ inView[t] # NoView THEN {Cache(inView[t])}
    ELSE IF pc[t] = "c_check" /\ IsStale(c_generationId[inView[t]], m_generationId)
         THEN {Cache(inView[t])}
    ELSE {}

\* The structures the thread's next step reads: those it writes, the queues
\* whose size() line 83 tests (the second only when the first is empty), and
\* the vector a loop walks.
Reads(t) ==
    Writes(t) \cup
    (IF nested[t] # NoRequest THEN {}
     ELSE IF pc[t] = "fe_check"
          THEN {<<"m_objectsToAdd", "registry">>} \cup
               (IF m_objectsToAdd = <<>>
                THEN {<<"m_objectsToRemove", "registry">>} ELSE {})
     ELSE IF pc[t] = "fe_iterate" THEN {<<"m_objects", "registry">>}
     ELSE IF pc[t] = "c_iterate" THEN {Cache(inView[t])}
     ELSE {})

\* The thread is not inside any call.
Idle(t) == pc[t] = "idle" /\ nested[t] = NoRequest

\* C12: Deadlock freedom.  With threads calling RequestAddObject,
\* RequestRemoveObject, the registry's ForEach and a view's ForEach
\* concurrently, and predicates (of an enumeration, or of a removal) that call
\* RequestAddObject and RequestRemoveObject on the registry, no thread waits
\* for a lock forever: no thread outside a call owns a lock, no set of threads
\* wait for locks owned by one another (or by themselves), and every thread
\* inside a call either can take its next step or waits for a lock that
\* another thread owns.
C12_NoLockLeft == \A t \in Threads : Idle(t) => Holds(t) = {}

C12_NoWaitCycle ==
    \A S \in SUBSET Threads :
        S # {} => \E t \in S : Wants(t) = NoLock \/ Holder(Wants(t)) \notin S

C12_CanStep ==
    \A t \in Threads :
        ~Idle(t) =>
            \/ ENABLED StepNested(t)
            \/ Wants(t) # NoLock /\ Holder(Wants(t)) \in Threads \ {t}

C12_DeadlockFree == C12_NoLockLeft /\ C12_NoWaitCycle /\ C12_CanStep

\* C12 witness: one thread holds the view's lock and waits for the main-set
\* lock to rebuild; the other holds the main-set lock inside its registry
\* ForEach, and its predicate, which has called RequestAddObject, holds the
\* add-queue lock.
C12_Witness ==
    \E t, u \in Threads :
        /\ pc[t] = "fe_lock" /\ inView[t] # NoView
        /\ Holds(t) = {ViewLock(inView[t])}
        /\ pc[u] = "fe_iterate"
        /\ nested[u] = [pos |-> "push", kind |-> "add", obj |-> "obj1"]
        /\ Holds(u) = {MainLock, AddLock}

\* The place of a mutex in the order the code takes them: a view's, the
\* registry's main-set mutex, a queue's.
LockRank(l) ==
    IF l = MainLock THEN 2
    ELSE IF l \in {AddLock, RemoveLock} THEN 3
    ELSE 1

\* C13: Lock nesting discipline, as stated.  A thread that holds two or more
\* locks at once holds exactly the main-set lock and one of the add-queue
\* lock and the remove-queue lock.
C13_OnlyMainThenQueue ==
    \A t \in Threads :
        Cardinality(Holds(t)) >= 2 =>
            \/ Holds(t) = {MainLock, AddLock}
            \/ Holds(t) = {MainLock, RemoveLock}

\* C13, amended.  A thread holds at most one view's lock and never both queue
\* locks, and it acquires a lock only when every lock it already holds comes
\* earlier in the order view's lock, main-set lock, queue lock: the locks it
\* holds at once are a view's lock, the main-set lock and one queue lock, or
\* some of these.
C13_Held ==
    \A t \in Threads :
        /\ ~({AddLock, RemoveLock} \subseteq Holds(t))
        /\ Cardinality({v \in Views : ViewLock(v) \in Holds(t)}) <= 1

C13_Acquire ==
    \A t \in Threads :
        \A l \in Locks :
            (Holder(l) # t /\ Holder(l)' = t) =>
                \A h \in Holds(t) : LockRank(h) < LockRank(l)

C13_LockOrder == [](C13_Held) /\ [][C13_Acquire]_vars

\* C13 witness: a thread rebuilding a view's cache holds the view's lock, the
\* main-set lock and the add-queue lock.
C13_Witness ==
    \E t \in Threads :
        /\ pc[t] = "fe_add"
        /\ Holds(t) = {ViewLock("DFooInterface"), MainLock, AddLock}

\* C14: Dedicated-lock protection.  No thread is about to read a structure
\* (the materialized set, a queue, a view's cache) that another thread is
\* about to modify: every access to a structure is made by the owner of the
\* structure's lock.
C14_NoRace ==
    \A t, u \in Threads :
        t # u => Reads(t) \cap Writes(u) = {}

\* C15: Deferred mutation frame.  RequestAddObject acquires the add-queue
\* lock, appends its object to the add queue and releases the lock; a
\* RequestRemoveObject that is not vetoed does the same with the remove queue
\* and its lock; neither changes anything else of the registry or of a view;
\* and the materialized set changes only in a drain step of a registry
\* ForEach, made by the owner of the main-set lock.
C15_Add ==
    \A t \in Threads :
        /\ (pc[t] = "idle" /\ pc'[t] = "add_push") =>
               /\ Holds(t)' = Holds(t) \cup {AddLock}
               /\ UNCHANGED <<m_objects, m_objectsToAdd, m_objectsToRemove,
                              m_generationId, m_objectsLock,
                              m_objectsToRemoveLock, viewVars>>
        /\ (pc[t] = "add_push" /\ pc'[t] # "add_push") =>
               /\ m_objectsToAdd' = Append(m_objectsToAdd, in_object[t])
               /\ Holds(t)' = Holds(t) \ {AddLock}
               /\ UNCHANGED <<m_objects, m_objectsToRemove, m_generationId,
                              m_objectsLock, m_objectsToRemoveLock, viewVars>>

C15_Remove ==
    \A t \in Threads :
        /\ (pc[t] = "idle" /\ pc'[t] = "remove_lock") =>
               UNCHANGED <<registryVars, viewVars>>
        /\ (pc[t] = "remove_lock" /\ pc'[t] = "remove_push") =>
               /\ Holds(t)' = Holds(t) \cup {RemoveLock}
               /\ UNCHANGED <<m_objects, m_objectsToAdd, m_objectsToRemove,
                              m_generationId, m_objectsLock, m_objectsToAddLock,
                              viewVars>>
        /\ (pc[t] = "remove_push" /\ pc'[t] # "remove_push") =>
               /\ m_objectsToRemove' = Append(m_objectsToRemove, in_object[t])
               /\ Holds(t)' = Holds(t) \ {RemoveLock}
               /\ UNCHANGED <<m_objects, m_objectsToAdd, m_generationId,
                              m_objectsLock, m_objectsToAddLock, viewVars>>

C15_SetOnlyInDrain ==
    m_objects' # m_objects =>
        \E t \in Threads :
            /\ pc[t] \in {"fe_add", "fe_remove"}
            /\ pc'[t] # pc[t]
            /\ m_objectsLock = t

C15_DeferredFrame == [][C15_Add /\ C15_Remove /\ C15_SetOnlyInDrain]_vars

\* C15 witness: obj3 is in the materialized set and in the Foo view's cache;
\* a removal of obj3 and an addition of obj1 have been requested and are
\* queued, and the set, the generation and the cache are as they were.
C15_Witness ==
    /\ \A t \in Threads : Idle(t)
    /\ m_objectsToAdd = <<"obj1">>
    /\ m_objectsToRemove = <<"obj3">>
    /\ m_objects = <<"obj3">>
    /\ m_generationId = 1
    /\ c_generationId["DFooInterface"] = 1
    /\ c_objects["DFooInterface"] = <<"obj3">>

\* C16: Initial staleness.  A view that has never rebuilt is found stale by
\* its ForEach, whatever the registry's generation then is.
C16_InitiallyStale ==
    \A t \in Threads :
        (pc[t] = "c_check" /\ inView[t] \notin rebuiltViews) =>
            IsStale(c_generationId[inView[t]], m_generationId)

\* C17: Query conventions agree.  For every object and type_info queried,
\* QueryInterface<T>() and QueryInterface(typeid) return the same pointer;
\* QueryInterface(typeid, out) writes that pointer to its output and returns
\* true exactly when it is not null; both HasInterface forms return true
\* exactly then; the pointer is null exactly when the object's class does not
\* derive from the interface; and two queries of the same object for the same
\* interface have the same answers.
C17_QueriesAgree ==
    \A t \in Threads :
        query[t] # NoQuery =>
            LET r == query[t]
                absent == r.typed = "nullptr"
            IN  /\ r.byTypeId = r.typed
                /\ r.comLike.out_interface = r.typed
                /\ r.comLike.return = ~absent
                /\ r.has = ~absent
                /\ r.hasByTypeId = ~absent
                /\ absent <=> r.typeId \notin Implements(ClassOf(r.object))
                /\ ~absent => r.typed = <<r.object, r.typeId>>
                /\ \A u \in Threads :
                       (/\ query[u] # NoQuery
                        /\ query[u].object = r.object
                        /\ query[u].typeId = r.typeId) => query[u] = r

\* C17 witness: obj1, a DExampleClass, has been queried for DFooInterface,
\* which it lacks, and obj3, a DOtherExampleClass, for DFooInterface, which it
\* has.
C17_Witness ==
    \E t, u \in Threads :
        /\ query[t].object = "obj1" /\ query[t].typeId = "DFooInterface"
        /\ query[t].comLike = [out_interface |-> "nullptr", return |-> FALSE]
        /\ query[u].object = "obj3" /\ query[u].typeId = "DFooInterface"
        /\ query[u].comLike.return

\* C18: Rebuild only when stale.  A view's ForEach that finds its stored
\* generation equal to the registry's does not call the registry's ForEach:
\* it goes on to its loop, walks the cache as it is, and returns, and none of
\* its steps changes the queues (even when they hold requests), the
\* materialized set, the generation, a lock of the registry, the cache or the
\* stored generation.
C18_Check ==
    \A t \in Threads :
        (/\ pc[t] = "c_check" /\ pc'[t] # "c_check"
         /\ c_generationId[inView[t]] = m_generationId)
        => /\ pc'[t] = "c_iterate"
           /\ ~obs'[t].rebuilt
           /\ UNCHANGED <<registryVars, viewVars>>

C18_Loop ==
    \A t \in Threads :
        (pc[t] = "c_iterate" /\ pc'[t] # "c_iterate" /\ ~obs[t].rebuilt)
        => /\ pc'[t] = "c_done"
           /\ LET cache == c_objects[inView[t]]
                  k == obs'[t].cancelAt
              IN  obs'[t].visited =
                      SubSeq(cache, 1, IF k = 0 THEN Len(cache) ELSE k)
           /\ UNCHANGED <<registryVars, viewVars>>

C18_Return ==
    \A t \in Threads :
        (pc[t] = "c_done" /\ pc'[t] # "c_done" /\ ~obs[t].rebuilt)
        => /\ pc'[t] = "idle"
           /\ UNCHANGED <<registryVars, c_objects, c_generationId>>

C18_RebuildOnlyWhenStale == [][C18_Check /\ C18_Loop /\ C18_Return]_vars

\* C18 witness: the Foo view rebuilt when obj3 was in the set; since then
\* obj1 has been requested and is queued; a ForEach of the view has found the
\* generations equal and has visited obj3 from the cache, and the request is
\* still queued.
C18_Witness ==
    \E t \in Threads :
        /\ pc[t] = "c_done"
        /\ inView[t] = "DFooInterface"
        /\ ~obs[t].rebuilt
        /\ obs[t].visited = <<"obj3">>
        /\ m_objectsToAdd = <<"obj1">>
        /\ m_objects = <<"obj3">>
        /\ c_generationId["DFooInterface"] = m_generationId

\* C19: Generation identifies the set.  Two reachable states in which the
\* main-set lock is free and the generation is the same hold the same
\* materialized set.  The registry as constructed is such a state, with
\* generation 0 and the empty set; so in every reachable state in which the
\* main-set lock is free and the generation is 0, the materialized set is
\* empty.
C19_GenerationIdentifiesSet ==
    (m_objectsLock = NoThread /\ m_generationId = 0) => m_objects = <<>>

\* C20: Cache members have the capability.  Every object in a view's cache has
\* the view's interface, and the capability overload of the view's ForEach
\* has resolved a non-null interface, that of the view, for every object it
\* handed to the caller's predicate.
C20_CacheHasInterface ==
    /\ \A v \in Views :
           \A o \in Range(c_objects[v]) : HasInterface(o, v)
    /\ \A t \in Threads :
           (pc[t] = "c_done" /\ obs[t].form = "capability") =>
               /\ Len(obs[t].resolved) = Len(obs[t].visited)
               /\ \A i \in DOMAIN obs[t].resolved :
                      /\ obs[t].resolved[i] # "nullptr"
                      /\ obs[t].resolved[i] = <<obs[t].visited[i], inView[t]>>

\* C20 witness: the set holds obj1, which lacks DFooInterface, and obj3, which
\* has it; the capability overload of the Foo view's ForEach has handed the
\* DFooInterface of obj3, the cache's one object, to the predicate.
C20_Witness ==
    \E t \in Threads :
        /\ pc[t] = "c_done"
        /\ inView[t] = "DFooInterface"
        /\ obs[t].form = "capability"
        /\ Range(m_objects) = {"obj1", "obj3"}
        /\ c_objects["DFooInterface"] = <<"obj3">>
        /\ obs[t].resolved = << <<"obj3", "DFooInterface">> >>

====
